---- MODULE Spec2Model ----
(***************************************************************************)
(* Artwork lookup of AIOStreams: the ID parsers, the ranking selector      *)
(* (LogoService.selectBestLogo), the logo lookup with its cache-aside      *)
(* layer (LogoService.getLogo), the poster fallback chain                  *)
(* (ArtworkProvider.getPosterUrl) and the Fanart.tv API-key validation.    *)
(*                                                                         *)
(* Strings the code inspects character by character (ids) are sequences    *)
(* of one-character strings.  JSON values are tagged records, so that a    *)
(* field of a provider's answer may be missing, null, a number or a string.*)
(***************************************************************************)
EXTENDS Integers, Sequences, FiniteSets, TLC

(***************************************************************************)
(* Bounds of the model.                                                    *)
(***************************************************************************)
MaxDigits == 2
MaxLogos == 3
MaxCalls == 2

(***************************************************************************)
(* JSON / JavaScript values.                                               *)
(***************************************************************************)
Undefined == [t |-> "undefined", n |-> 0, s |-> <<>>]
Null == [t |-> "null", n |-> 0, s |-> <<>>]
Num(k) == [t |-> "number", n |-> k, s |-> <<>>]
Str(q) == [t |-> "string", n |-> 0, s |-> q]
NaN == [t |-> "NaN", n |-> 0, s |-> <<>>]

\* JavaScript truthiness: undefined, null, 0, NaN and "" are falsy.
Truthy(v) ==
  CASE v.t = "undefined" -> FALSE
    [] v.t = "null" -> FALSE
    [] v.t = "NaN" -> FALSE
    [] v.t = "number" -> v.n # 0
    [] v.t = "string" -> v.s # <<>>
    [] OTHER -> TRUE

\* a || b
OrElse(a, b) == IF Truthy(a) THEN a ELSE b

DigitChars == {"0", "1", "2", "3", "4", "5", "6", "7", "8", "9"}
IsDigit(c) == c \in DigitChars
DigitVal(c) ==
  CASE c = "0" -> 0 [] c = "1" -> 1 [] c = "2" -> 2 [] c = "3" -> 3
    [] c = "4" -> 4 [] c = "5" -> 5 [] c = "6" -> 6 [] c = "7" -> 7
    [] c = "8" -> 8 [] c = "9" -> 9

\* The length of the longest prefix of q made of digits (a greedy \d*).
RECURSIVE DigitRun(_)
DigitRun(q) ==
  IF q # <<>> /\ IsDigit(Head(q)) THEN 1 + DigitRun(Tail(q)) ELSE 0

Drop(q, k) == SubSeq(q, k + 1, Len(q))
Take(q, k) == SubSeq(q, 1, k)
StartsWith(q, p) == Len(q) >= Len(p) /\ Take(q, Len(p)) = p

(***************************************************************************)
(* The ID regular expressions.  Each is anchored (^...$) and has the shape *)
(*   literal  [-:]?  (\d+)  (?::\d+:\d+)?                                  *)
(* A match is [ok |-> TRUE, cap |-> the digits of group 1].                *)
(***************************************************************************)
NoMatch == [ok |-> FALSE, cap |-> <<>>]

\* (?::\d+:\d+)?$ : nothing, or ":" digits ":" digits, then the end.
SuffixMatches(r) ==
  \/ r = <<>>
  \/ /\ r # <<>>
     /\ Head(r) = ":"
     /\ LET a == Tail(r)
            k == DigitRun(a)
            b == Drop(a, k)
        IN /\ k >= 1
           /\ b # <<>>
           /\ Head(b) = ":"
           /\ DigitRun(Tail(b)) >= 1
           /\ DigitRun(Tail(b)) = Len(Tail(b))

\* [-:] when sep, then (\d+)(?::\d+:\d+)?$ on what follows the literal.
\* \d+ is greedy and the suffix starts with ":", so group 1 is the whole
\* run of digits.
MatchTail(rest, sep) ==
  LET r == IF sep THEN Tail(rest) ELSE rest
      k == DigitRun(r)
  IN IF sep /\ (rest = <<>> \/ Head(rest) \notin {"-", ":"})
       THEN NoMatch
       ELSE IF k >= 1 /\ SuffixMatches(Drop(r, k))
              THEN [ok |-> TRUE, cap |-> Take(r, k)]
              ELSE NoMatch

\* ^(?:literal)... ; with optional, ^(?:literal)?... : the literal is tried
\* first and the match is retried without it.
RegexExec(id, literal, sep, optional) ==
  LET with == IF StartsWith(id, literal)
                THEN MatchTail(Drop(id, Len(literal)), sep)
                ELSE NoMatch
  IN IF with.ok THEN with
     ELSE IF optional THEN MatchTail(id, sep) ELSE NoMatch

LitTmdb == <<"t", "m", "d", "b">>
LitTvdb == <<"t", "v", "d", "b">>
LitTt == <<"t", "t">>

\* An IMDb pattern whose tt is optional: /^(?:tt)?(\d+)(?::\d+:\d+)?$/
IMDB_ID_REGEX_OptionalTt(id) == RegexExec(id, LitTt, FALSE, TRUE)

\* LogoService (getLogo.ts)
TMDB_ID_REGEX(id) == RegexExec(id, LitTmdb, TRUE, FALSE)
TVDB_ID_REGEX(id) == RegexExec(id, LitTvdb, TRUE, FALSE)
IMDB_ID_REGEX(id) == RegexExec(id, LitTt, FALSE, FALSE)

\* FanartTV, the poster client (fanart.ts): the tt prefix is optional.
Fanart_IMDB_ID_REGEX(id) == RegexExec(id, LitTt, FALSE, TRUE)

\* FanartTV, the URL-building variant
Variant_TMDB_ID_REGEX(id) == RegexExec(id, LitTmdb, TRUE, FALSE)
Variant_TVDB_ID_REGEX(id) == RegexExec(id, LitTvdb, TRUE, FALSE)
Variant_IMDB_ID_REGEX(id) == RegexExec(id, LitTt, FALSE, FALSE)

(***************************************************************************)
(* The ID parsers.  An ExternalId is [type, value]; NullId is null.        *)
(***************************************************************************)
NullId == [type |-> "null", value |-> <<>>]

Movie == <<"m", "o", "v", "i", "e">>
Series == <<"s", "e", "r", "i", "e", "s">>
Tv == <<"t", "v">>

\* A parser that gives the capture of the IMDb pattern as the value.
parseExternalId_BareImdb(id) ==
  IF TMDB_ID_REGEX(id).ok
    THEN [type |-> "tmdb", value |-> TMDB_ID_REGEX(id).cap]
  ELSE IF IMDB_ID_REGEX(id).ok
    THEN [type |-> "imdb", value |-> IMDB_ID_REGEX(id).cap]
  ELSE IF TVDB_ID_REGEX(id).ok
    THEN [type |-> "tvdb", value |-> TVDB_ID_REGEX(id).cap]
  ELSE NullId

parseExternalId(id) ==
  IF TMDB_ID_REGEX(id).ok
    THEN [type |-> "tmdb", value |-> TMDB_ID_REGEX(id).cap]
  ELSE IF IMDB_ID_REGEX(id).ok
    THEN [type |-> "imdb", value |-> LitTt \o IMDB_ID_REGEX(id).cap]
  ELSE IF TVDB_ID_REGEX(id).ok
    THEN [type |-> "tvdb", value |-> TVDB_ID_REGEX(id).cap]
  ELSE NullId

getParsedId(id, type) ==
  IF Variant_TMDB_ID_REGEX(id).ok
    THEN IF type = Movie
           THEN [type |-> "tmdb", value |-> Variant_TMDB_ID_REGEX(id).cap]
           ELSE NullId
  ELSE IF Variant_IMDB_ID_REGEX(id).ok
    THEN [type |-> "imdb", value |-> LitTt \o Variant_IMDB_ID_REGEX(id).cap]
  ELSE IF Variant_TVDB_ID_REGEX(id).ok
    THEN IF type = Series
           THEN [type |-> "tvdb", value |-> Variant_TVDB_ID_REGEX(id).cap]
           ELSE NullId
  ELSE NullId

\* Returns a string or null.
parseImdbId(id) ==
  IF Fanart_IMDB_ID_REGEX(id).ok
    THEN Str(LitTt \o Fanart_IMDB_ID_REGEX(id).cap)
    ELSE Null

(***************************************************************************)
(* The ranking selector.  A logo is a JSON object of a provider's list     *)
(* (Fanart.tv: url, lang, likes; TMDB: file_path, iso_639_1, vote_average);*)
(* js tells an object from a null element of the list.                     *)
(***************************************************************************)
Logo(url, lang, likes, file_path, iso, vote) ==
  [js |-> "object", url |-> url, lang |-> lang, likes |-> likes,
   file_path |-> file_path, iso_639_1 |-> iso, vote_average |-> vote]
NullLogo ==
  [js |-> "null", url |-> Undefined, lang |-> Undefined, likes |-> Undefined,
   file_path |-> Undefined, iso_639_1 |-> Undefined, vote_average |-> Undefined]
\* The marker of a TypeError thrown while reading a property of null.
ThrownLogo ==
  [js |-> "throw", url |-> Undefined, lang |-> Undefined, likes |-> Undefined,
   file_path |-> Undefined, iso_639_1 |-> Undefined, vote_average |-> Undefined]

LangEn == <<"e", "n">>

getLanguagePriority(lang, preferredLanguage) ==
  IF lang = Str(preferredLanguage) THEN 4
  ELSE IF lang = Str(LangEn) THEN 3
  ELSE IF lang = Null \/ lang = Str(<<>>) THEN 2
  ELSE 1

RECURSIVE DecimalValue(_, _)
DecimalValue(q, acc) ==
  IF q = <<>> THEN acc ELSE DecimalValue(Tail(q), 10 * acc + DigitVal(Head(q)))

\* parseFloat: a number is itself; a string is read up to its last leading
\* digit; anything that does not start with a digit is NaN.
parseFloat(v) ==
  CASE v.t = "number" -> v
    [] v.t = "string" ->
         IF DigitRun(v.s) >= 1
           THEN Num(DecimalValue(Take(v.s, DigitRun(v.s)), 0))
           ELSE NaN
    [] OTHER -> NaN

\* parseFloat(a.vote_average || a.likes || '0')
Rating(a) == parseFloat(OrElse(OrElse(a.vote_average, a.likes), Str(<<"0">>)))

\* x - y on numbers; NaN if either is NaN.
Minus(x, y) == IF x.t = "NaN" \/ y.t = "NaN" THEN NaN ELSE Num(x.n - y.n)

\* A comparator that looks at the rating before the language.
CompareLogos_RatingFirst(a, b, preferredLanguage, languageKey) ==
  LET aPriority == getLanguagePriority(a[languageKey], preferredLanguage)
      bPriority == getLanguagePriority(b[languageKey], preferredLanguage)
      byRating == Minus(Rating(b), Rating(a))
  IN IF byRating.t = "number" /\ byRating.n # 0
       THEN byRating
       ELSE Num(bPriority - aPriority)

\* A comparator that never answers 0: return bRating >= aRating ? 1 : -1
CompareLogos_NoTie(a, b, preferredLanguage, languageKey) ==
  LET aPriority == getLanguagePriority(a[languageKey], preferredLanguage)
      bPriority == getLanguagePriority(b[languageKey], preferredLanguage)
      byRating == Minus(Rating(b), Rating(a))
  IN IF aPriority # bPriority
       THEN Num(bPriority - aPriority)
       ELSE IF byRating.t = "number" /\ byRating.n < 0 THEN Num(0 - 1) ELSE Num(1)

\* The comparator handed to Array.prototype.sort.
CompareLogos(a, b, preferredLanguage, languageKey) ==
  LET aPriority == getLanguagePriority(a[languageKey], preferredLanguage)
      bPriority == getLanguagePriority(b[languageKey], preferredLanguage)
  IN IF aPriority # bPriority
       THEN Num(bPriority - aPriority)
       ELSE Minus(Rating(b), Rating(a))

\* Array.prototype.sort reads a comparator result of NaN as +0.
SortOrder(a, b, preferredLanguage, languageKey) ==
  LET v == CompareLogos(a, b, preferredLanguage, languageKey)
  IN IF v.t = "NaN" THEN 0 ELSE v.n

\* Array.prototype.sort is stable: an element is placed after every element
\* that does not sort after it.  With a comparator that is not consistent
\* (a NaN rating compares equal to every rating) the order of a list of
\* three or more is implementation-defined; a list of two keeps its order
\* in every implementation.
RECURSIVE InsertLogo(_, _, _, _)
InsertLogo(x, sorted, preferredLanguage, languageKey) ==
  IF sorted = <<>> THEN <<x>>
  ELSE IF SortOrder(Head(sorted), x, preferredLanguage, languageKey) > 0
         THEN <<x>> \o sorted
         ELSE <<Head(sorted)>> \o
              InsertLogo(x, Tail(sorted), preferredLanguage, languageKey)

RECURSIVE SortLogos(_, _, _)
SortLogos(logos, preferredLanguage, languageKey) ==
  IF logos = <<>> THEN <<>>
  ELSE InsertLogo(logos[Len(logos)],
                  SortLogos(Take(logos, Len(logos) - 1),
                            preferredLanguage, languageKey),
                  preferredLanguage, languageKey)

\* Returns an element of logos, NullLogo (null), or ThrownLogo when the
\* comparator reads a property of a null element.
selectBestLogo(logos, preferredLanguage, languageKey) ==
  IF Len(logos) = 0 THEN NullLogo
  ELSE IF Len(logos) >= 2 /\ \E i \in 1..Len(logos) : logos[i].js = "null"
    THEN ThrownLogo
  ELSE SortLogos(logos, preferredLanguage, languageKey)[1]

(***************************************************************************)
(* What makeRequest can give back: it throws (network error, timeout), or  *)
(* resolves to a response with a status and a body.  body.js tells a JSON  *)
(* object from JSON null and from text json() cannot parse.  A field of    *)
(* the body is [t, items]: t is "array", "undefined" (missing) or "other". *)
(***************************************************************************)
Arr(items) == [t |-> "array", items |-> items]
NoField == [t |-> "undefined", items |-> <<>>]
OtherField == [t |-> "other", items |-> <<>>]

EmptyBody ==
  [js |-> "object", movielogo |-> NoField, clearlogo |-> NoField,
   movieposter |-> NoField, tvposter |-> NoField, logos |-> NoField,
   movie_results |-> NoField, tv_results |-> NoField]
\* JSON null, and text that json() cannot parse (it throws).
NullBody == [EmptyBody EXCEPT !.js = "null"]
InvalidBody == [EmptyBody EXCEPT !.js = "invalid"]

Thrown == [kind |-> "throw", status |-> 0, body |-> EmptyBody]
Response(status, body) == [kind |-> "response", status |-> status, body |-> body]
\* response.ok
Ok(resp) == resp.status >= 200 /\ resp.status <= 299

\* String(v) as a template literal does it.
RECURSIVE NatDigits(_)
NatDigits(k) ==
  IF k < 10 THEN <<CHOOSE c \in DigitChars : DigitVal(c) = k>>
  ELSE NatDigits(k \div 10) \o <<CHOOSE c \in DigitChars : DigitVal(c) = k % 10>>
ToStringJS(v) ==
  CASE v.t = "string" -> v.s
    [] v.t = "number" -> NatDigits(v.n)
    [] v.t = "null" -> <<"n", "u", "l", "l">>
    [] v.t = "NaN" -> <<"N", "a", "N">>
    [] OTHER -> <<"u", "n", "d", "e", "f", "i", "n", "e", "d">>

(***************************************************************************)
(* LogoService.getFanartLogo, getTmdbLogo and convertToTmdbId, each split  *)
(* at its await of makeRequest: the endpoint it asks, and what it returns  *)
(* for the answer.                                                         *)
(***************************************************************************)
NoEndpoint == [ok |-> FALSE, api |-> "none", path |-> <<>>, id |-> <<>>, logoKey |-> "none"]

\* A getFanartLogo that asks for a series whatever the kind of its id.
FanartEndpoint_AnySeriesId(externalId, type) ==
  IF type = Movie /\ externalId.type = "tmdb"
    THEN [ok |-> TRUE, api |-> "fanart", path |-> <<"movies">>,
          id |-> externalId.value, logoKey |-> "movielogo"]
  ELSE IF type = Series \/ type = Tv
    THEN [ok |-> TRUE, api |-> "fanart", path |-> <<"tv">>,
          id |-> externalId.value, logoKey |-> "clearlogo"]
  ELSE NoEndpoint

\* getFanartLogo up to makeRequest: the endpoint, or none (it returns null).
FanartEndpoint(externalId, type) ==
  IF type = Movie /\ externalId.type = "tmdb"
    THEN [ok |-> TRUE, api |-> "fanart", path |-> <<"movies">>,
          id |-> externalId.value, logoKey |-> "movielogo"]
  ELSE IF (type = Series \/ type = Tv) /\ externalId.type = "tvdb"
    THEN [ok |-> TRUE, api |-> "fanart", path |-> <<"tv">>,
          id |-> externalId.value, logoKey |-> "clearlogo"]
  ELSE NoEndpoint

\* getFanartLogo after makeRequest; every throw ends in its catch (null).
FanartLogoOf(resp, logoKey, language) ==
  IF resp.kind = "throw" THEN Null
  ELSE IF ~Ok(resp) THEN Null
  ELSE IF resp.body.js # "object" THEN Null
  ELSE LET logos == resp.body[logoKey]
       IN IF logos.t # "array" \/ Len(logos.items) = 0 THEN Null
          ELSE LET selectedLogo == selectBestLogo(logos.items, language, "lang")
               IN IF selectedLogo.js # "object" THEN Null
                  ELSE OrElse(selectedLogo.url, Null)

TmdbImageBase == <<"https://image.tmdb.org/t/p/original">>

\* getTmdbLogo: the images endpoint for a tmdb id.
ImagesEndpoint(tmdbId, type) ==
  [ok |-> TRUE, api |-> "tmdb-images",
   path |-> IF type = Movie THEN <<"movie">> ELSE <<"tv">>,
   id |-> tmdbId, logoKey |-> "logos"]

\* getTmdbLogo after makeRequest.
TmdbLogoOf(resp, language) ==
  IF resp.kind = "throw" THEN Null
  ELSE IF ~Ok(resp) THEN Null
  ELSE IF resp.body.js # "object" THEN Null
  ELSE LET logos == resp.body.logos
       IN IF logos.t # "array" \/ Len(logos.items) = 0 THEN Null
          ELSE LET selectedLogo == selectBestLogo(logos.items, language, "iso_639_1")
               IN IF selectedLogo.js = "object"
                    THEN Str(TmdbImageBase \o ToStringJS(selectedLogo.file_path))
                    ELSE Null

\* convertToTmdbId: the find endpoint.
FindEndpoint(externalId) ==
  [ok |-> TRUE, api |-> "tmdb-find", path |-> <<externalId.type>>,
   id |-> externalId.value, logoKey |-> "none"]

\* convertToTmdbId after makeRequest: results[0].id.toString(), or null.
\* An element of a results list is [js, id].
TmdbIdOf(resp, type) ==
  IF resp.kind = "throw" THEN Null
  ELSE IF ~Ok(resp) THEN Null
  ELSE IF resp.body.js # "object" THEN Null
  ELSE LET results == IF type = Movie THEN resp.body.movie_results
                      ELSE resp.body.tv_results
       IN IF results.t = "undefined" THEN Null
          ELSE IF results.t = "array" /\ Len(results.items) = 0 THEN Null
          ELSE IF results.t # "array" THEN Null
          ELSE IF results.items[1].js # "object" THEN Null
          ELSE IF results.items[1].id.t \in {"undefined", "null"} THEN Null
          ELSE Str(ToStringJS(results.items[1].id))

\* The catch block of getFanartLogo is entered: makeRequest or json() threw,
\* data is null, or the comparator read a property of a null element.
FanartThrew(resp, logoKey, language) ==
  IF resp.kind = "throw" THEN TRUE
  ELSE IF ~Ok(resp) THEN FALSE
  ELSE IF resp.body.js # "object" THEN TRUE
  ELSE LET logos == resp.body[logoKey]
       IN IF logos.t # "array" \/ Len(logos.items) = 0 THEN FALSE
          ELSE selectBestLogo(logos.items, language, "lang").js = "throw"

\* The catch block of getTmdbLogo is entered after the images request.
ImagesThrew(resp, language) ==
  IF resp.kind = "throw" THEN TRUE
  ELSE IF ~Ok(resp) THEN FALSE
  ELSE IF resp.body.js # "object" THEN TRUE
  ELSE LET logos == resp.body.logos
       IN IF logos.t # "array" \/ Len(logos.items) = 0 THEN FALSE
          ELSE selectBestLogo(logos.items, language, "iso_639_1").js = "throw"

\* The catch block of convertToTmdbId is entered.
FindThrew(resp, type) ==
  IF resp.kind = "throw" THEN TRUE
  ELSE IF ~Ok(resp) THEN FALSE
  ELSE IF resp.body.js # "object" THEN TRUE
  ELSE LET results == IF type = Movie THEN resp.body.movie_results
                      ELSE resp.body.tv_results
       IN IF results.t = "undefined" THEN FALSE
          ELSE IF results.t # "array" THEN TRUE
          ELSE IF Len(results.items) = 0 THEN FALSE
          ELSE IF results.items[1].js # "object" THEN TRUE
          ELSE results.items[1].id.t \in {"undefined", "null"}

(***************************************************************************)
(* The state.                                                              *)
(*   logoCache   the 'logo' cache singleton: key -> entry                  *)
(*   calls       the getLogo calls: each call's position and locals        *)
(***************************************************************************)
VARIABLES logoCache, calls, posterCalls, apiKeyValidationCache, validations,
          input, output

vars == <<logoCache, calls, posterCalls, apiKeyValidationCache, validations,
          input, output>>
lookupVars == <<logoCache, calls, posterCalls>>
validationVars == <<apiKeyValidationCache, validations>>
pureVars == <<input, output>>

\* Cache TTL for logo URLs (24 hours)
LOGO_CACHE_TTL == 24 * 60 * 60

(***************************************************************************)
(* The inputs of the logo lookup.                                          *)
(***************************************************************************)
LogoIds ==
  { <<"t", "m", "d", "b", ":", "1">>, <<"t", "t", "1">>,
    <<"t", "v", "d", "b", ":", "1">>, <<"x">> }
MediaTypes == {Movie, Series, Tv}
Languages == {LangEn}

\* `${id}-${type}-${language}`
CacheKey(id, type, language) == id \o <<"-">> \o type \o <<"-">> \o language
LogoKeys == {CacheKey(i, t, l) : i \in LogoIds, t \in MediaTypes, l \in Languages}

(***************************************************************************)
(* The cache store: get(key) -> value | undefined, set(key, value, ttl).   *)
(***************************************************************************)
Absent == [present |-> FALSE, value |-> Undefined, ttl |-> 0]
CacheGet(cache, key) == IF cache[key].present THEN cache[key].value ELSE Undefined
CacheSet(cache, key, value, ttl) ==
  [cache EXCEPT ![key] = [present |-> TRUE, value |-> value, ttl |-> ttl]]

(***************************************************************************)
(* What the providers may answer.                                          *)
(***************************************************************************)
UrlF1 == Str(<<"fanart/a.png">>)
UrlF2 == Str(<<"fanart/b.png">>)
FanartLogoA == Logo(UrlF1, Str(<<"f", "r">>), Str(<<"5">>), Undefined, Undefined, Undefined)
FanartLogoB == Logo(UrlF2, Str(LangEn), Str(<<"1">>), Undefined, Undefined, Undefined)
FanartLogoOdd == Logo(Num(42), Str(LangEn), Str(<<"1">>), Undefined, Undefined, Undefined)
TmdbLogoA == Logo(Undefined, Undefined, Undefined, Str(<<"/a.png">>), Null, Num(9))
TmdbLogoB == Logo(Undefined, Undefined, Undefined, Str(<<"/b.png">>), Str(LangEn), Num(1))

FanartBodies ==
  { InvalidBody, NullBody, EmptyBody,
    [EmptyBody EXCEPT !.movielogo = Arr(<<>>), !.clearlogo = OtherField],
    [EmptyBody EXCEPT !.movielogo = Arr(<<FanartLogoA, FanartLogoB>>),
                      !.clearlogo = Arr(<<FanartLogoA, FanartLogoB>>)],
    [EmptyBody EXCEPT !.movielogo = Arr(<<NullLogo>>),
                      !.clearlogo = Arr(<<NullLogo, FanartLogoA>>)],
    [EmptyBody EXCEPT !.movielogo = Arr(<<FanartLogoOdd>>),
                      !.clearlogo = Arr(<<FanartLogoOdd>>)] }
ImagesBodies ==
  { InvalidBody, NullBody, EmptyBody,
    [EmptyBody EXCEPT !.logos = Arr(<<>>)],
    [EmptyBody EXCEPT !.logos = OtherField],
    [EmptyBody EXCEPT !.logos = Arr(<<TmdbLogoA, TmdbLogoB>>)],
    [EmptyBody EXCEPT !.logos = Arr(<<NullLogo, TmdbLogoA>>)] }
\* An element of a results list of the find endpoint.
FindResult(id) == [js |-> "object", id |-> id]
FindBodies ==
  { NullBody, EmptyBody,
    [EmptyBody EXCEPT !.movie_results = Arr(<<>>), !.tv_results = Arr(<<>>)],
    [EmptyBody EXCEPT !.movie_results = Arr(<<FindResult(Num(7))>>),
                      !.tv_results = Arr(<<FindResult(Num(7))>>)],
    [EmptyBody EXCEPT !.movie_results = Arr(<<FindResult(Undefined)>>),
                      !.tv_results = OtherField] }

Responses(bodies) ==
  {Thrown} \cup {Response(500, EmptyBody)} \cup {Response(200, b) : b \in bodies}

\* How an answer ended, as the callers of makeRequest tell it apart.
AnswerKind(resp) ==
  IF resp.kind = "throw" THEN "throw" ELSE IF Ok(resp) THEN "ok" ELSE "notok"

(***************************************************************************)
(* LogoService.getLogo.  A call runs from one await of makeRequest to the  *)
(* next without interruption; calls interleave at those awaits.            *)
(*   pc          idle, fanart / find / images (the request awaited), done  *)
(*               (it has returned result), returned (the caller has it)    *)
(*   cachedLogo  what logoCache.get gave (undefined: a miss)               *)
(*   parsed      parseExternalId was called                                *)
(*   fanartLogo  what getFanartLogo returned (undefined: not called)       *)
(*   tmdbLogo    what getTmdbLogo returned (undefined: not called)         *)
(*   requests    the endpoints asked, in order;  answers: how each ended   *)
(*   writes      the logoCache.set calls made                              *)
(*   fault       the collaborator that throws during this call: none, get  *)
(*               (logoCache.get), debug (logger.debug), set (logoCache.set)*)
(*   caught      the call ended in the catch block of getLogo              *)
(***************************************************************************)
Calls == 1..MaxCalls

IdleCall ==
  [pc |-> "idle", id |-> <<>>, type |-> <<>>, language |-> <<>>,
   tmdbAccessToken |-> FALSE, fanartApiKey |-> FALSE,
   externalId |-> NullId, cachedLogo |-> Undefined, parsed |-> FALSE,
   fanartLogo |-> Undefined, tmdbId |-> Undefined, tmdbLogo |-> Undefined,
   result |-> Undefined, requests |-> <<>>, answers |-> <<>>, writes |-> <<>>,
   fault |-> "none", caught |-> FALSE]

KeyOf(call) == CacheKey(call.id, call.type, call.language)

\* if (cachedLogo)
IsCacheHit_Truthy(cachedLogo) == Truthy(cachedLogo)

\* if (cachedLogo !== undefined)
IsCacheHit(cachedLogo) == cachedLogo # Undefined

\* The collaborators of getLogo that may throw inside its try block.
LogoFaults == {"none", "get", "debug", "set"}

\* A catch block that caches null for the key before it returns null.
Catch_CachesNull(call, cache) ==
  [call |-> [call EXCEPT !.pc = "done", !.result = Null, !.caught = TRUE,
                         !.writes = Append(@, [key |-> KeyOf(call), value |-> Null,
                                               ttl |-> LOGO_CACHE_TTL])],
   cache |-> CacheSet(cache, KeyOf(call), Null, LOGO_CACHE_TTL)]

\* catch (error) { logger.error(...); return null }
Catch(call, cache) ==
  [call |-> [call EXCEPT !.pc = "done", !.result = Null, !.caught = TRUE],
   cache |-> cache]

\* logger.debug(...); logoCache.set(cacheKey, value, LOGO_CACHE_TTL); return
\* value.  logger.debug comes before the set on every path.  Cache (./cache)
\* is an external collaborator: its set is all-or-nothing, so a set that
\* throws has stored nothing.
Finish(call, cache, value) ==
  IF call.fault \in {"debug", "set"}
    THEN Catch(call, cache)
    ELSE [call |-> [call EXCEPT !.pc = "done", !.result = value,
                      !.writes = Append(@, [key |-> KeyOf(call), value |-> value,
                                            ttl |-> LOGO_CACHE_TTL])],
          cache |-> CacheSet(cache, KeyOf(call), value, LOGO_CACHE_TTL)]

\* A getLogo that returns the TMDB logo without caching it.
AfterTmdb_NotCached(call, cache, logo) ==
  IF Truthy(logo)
    THEN [call |-> [call EXCEPT !.pc = "done", !.tmdbLogo = logo, !.result = logo],
          cache |-> cache]
    ELSE Finish([call EXCEPT !.tmdbLogo = logo], cache, Null)

\* What getLogo does with the value getTmdbLogo returned.
AfterTmdb(call, cache, logo) ==
  Finish([call EXCEPT !.tmdbLogo = logo], cache, IF Truthy(logo) THEN logo ELSE Null)

\* A getTmdbLogo that asks for the images under the id as it was given.
TryTmdb_NoConversion(call, cache) ==
  IF call.tmdbAccessToken
    THEN [call |-> [call EXCEPT !.pc = "images",
                      !.tmdbId = Str(call.externalId.value),
                      !.requests = Append(@, ImagesEndpoint(call.externalId.value,
                                                            call.type))],
          cache |-> cache]
    ELSE Finish(call, cache, Null)

\* if (this.tmdbAccessToken) { logo = await this.getTmdbLogo(...) }
TryTmdb(call, cache) ==
  IF call.tmdbAccessToken
    THEN IF call.externalId.type # "tmdb"
           THEN [call |-> [call EXCEPT !.pc = "find",
                             !.requests = Append(@, FindEndpoint(call.externalId))],
                 cache |-> cache]
           ELSE [call |-> [call EXCEPT !.pc = "images",
                             !.tmdbId = Str(call.externalId.value),
                             !.requests = Append(@, ImagesEndpoint(call.externalId.value,
                                                                   call.type))],
                 cache |-> cache]
    ELSE Finish(call, cache, Null)

\* A getLogo that asks TMDB whatever Fanart.tv gave.
AfterFanart_AlwaysTmdb(call, cache, logo) ==
  TryTmdb([call EXCEPT !.fanartLogo = logo], cache)

\* A getLogo that gives up when Fanart.tv gave nothing.
AfterFanart_GiveUp(call, cache, logo) ==
  Finish([call EXCEPT !.fanartLogo = logo], cache, IF Truthy(logo) THEN logo ELSE Null)

\* What getLogo does with the value getFanartLogo returned.
AfterFanart(call, cache, logo) ==
  IF Truthy(logo)
    THEN Finish([call EXCEPT !.fanartLogo = logo], cache, logo)
    ELSE TryTmdb([call EXCEPT !.fanartLogo = logo], cache)

\* A getLogo that starts the TMDB attempt along with the Fanart.tv request.
TryFanart_Parallel(call, cache) ==
  IF call.fanartApiKey
    THEN LET endpoint == FanartEndpoint(call.externalId, call.type)
         IN IF endpoint.ok
              THEN [call |-> [call EXCEPT !.pc = "fanart",
                                !.requests =
                                  IF call.tmdbAccessToken
                                    THEN <<endpoint, FindEndpoint(call.externalId)>>
                                    ELSE <<endpoint>>],
                    cache |-> cache]
              ELSE AfterFanart(call, cache, Null)
    ELSE TryTmdb(call, cache)

\* if (this.fanartApiKey) { logo = await this.getFanartLogo(...) }
TryFanart(call, cache) ==
  IF call.fanartApiKey
    THEN LET endpoint == FanartEndpoint(call.externalId, call.type)
         IN IF endpoint.ok
              THEN [call |-> [call EXCEPT !.pc = "fanart",
                                !.requests = Append(@, endpoint)],
                    cache |-> cache]
              ELSE AfterFanart(call, cache, Null)
    ELSE TryTmdb(call, cache)

\* A getLogo that returns null for an id it cannot parse without caching it.
EnterGetLogo_UnparsedNotCached(call, cache) ==
  LET cachedLogo == CacheGet(cache, KeyOf(call))
      seen == [call EXCEPT !.cachedLogo = cachedLogo]
  IN IF IsCacheHit(cachedLogo)
       THEN [call |-> [seen EXCEPT !.pc = "done", !.result = cachedLogo], cache |-> cache]
       ELSE LET externalId == parseExternalId(call.id)
                parsed == [seen EXCEPT !.parsed = TRUE, !.externalId = externalId]
            IN IF externalId = NullId
                 THEN [call |-> [parsed EXCEPT !.pc = "done", !.result = Null],
                       cache |-> cache]
                 ELSE TryFanart(parsed, cache)

\* A getLogo that does not read the cache.
EnterGetLogo_NoCacheRead(call, cache) ==
  LET externalId == parseExternalId(call.id)
      parsed == [call EXCEPT !.parsed = TRUE, !.externalId = externalId]
  IN IF externalId = NullId
       THEN Finish(parsed, cache, Null)
       ELSE TryFanart(parsed, cache)

\* getLogo from its entry to its first await of a request, or to its return.
EnterGetLogo(call, cache) ==
  IF call.fault = "get" THEN Catch(call, cache)
  ELSE
  LET cachedLogo == CacheGet(cache, KeyOf(call))
      seen == [call EXCEPT !.cachedLogo = cachedLogo]
  IN IF IsCacheHit(cachedLogo)
       THEN IF call.fault = "debug"
              THEN Catch(seen, cache)
              ELSE [call |-> [seen EXCEPT !.pc = "done", !.result = cachedLogo],
                    cache |-> cache]
       ELSE LET externalId == parseExternalId(call.id)
                parsed == [seen EXCEPT !.parsed = TRUE, !.externalId = externalId]
            IN IF externalId = NullId
                 THEN Finish(parsed, cache, Null)
                 ELSE TryFanart(parsed, cache)

getLogo(c, id, type, language, tmdbAccessToken, fanartApiKey) ==
  /\ calls[c].pc = "idle"
  /\ IF c = 1 THEN TRUE ELSE calls[c - 1].pc # "idle"
  /\ \A d \in Calls : calls[d].pc \in {"idle", "returned"}
  /\ \A d \in Calls : posterCalls[d].pc = "idle"
  /\ LET next == EnterGetLogo([IdleCall EXCEPT !.id = id, !.type = type,
                                 !.language = language,
                                 !.tmdbAccessToken = tmdbAccessToken,
                                 !.fanartApiKey = fanartApiKey], logoCache)
     IN /\ calls' = [calls EXCEPT ![c] = next.call]
        /\ logoCache' = next.cache
  /\ UNCHANGED <<posterCalls, validationVars, pureVars>>

\* The Fanart.tv request of call c ends with resp.
FanartAnswer(c, resp) ==
  /\ calls[c].pc = "fanart"
  /\ LET call == [calls[c] EXCEPT !.answers = Append(@, AnswerKind(resp))]
         endpoint == call.requests[Len(call.requests)]
         next == IF call.fault = "debug"
                      /\ FanartThrew(resp, endpoint.logoKey, call.language)
                   THEN Catch(call, logoCache)
                   ELSE AfterFanart(call, logoCache,
                                    FanartLogoOf(resp, endpoint.logoKey,
                                                 call.language))
     IN /\ calls' = [calls EXCEPT ![c] = next.call]
        /\ logoCache' = next.cache
  /\ UNCHANGED <<posterCalls, validationVars, pureVars>>

\* The TMDB find request of call c ends with resp.
FindAnswer(c, resp) ==
  /\ calls[c].pc = "find"
  /\ LET call == [calls[c] EXCEPT !.answers = Append(@, AnswerKind(resp))]
         tmdbId == TmdbIdOf(resp, call.type)
         next == IF call.fault = "debug" /\ FindThrew(resp, call.type)
                   THEN Catch(call, logoCache)
                 ELSE IF ~Truthy(tmdbId)
                   THEN AfterTmdb([call EXCEPT !.tmdbId = tmdbId], logoCache, Null)
                   ELSE [call |-> [call EXCEPT !.pc = "images", !.tmdbId = tmdbId,
                                     !.requests = Append(@, ImagesEndpoint(tmdbId.s,
                                                                           call.type))],
                         cache |-> logoCache]
     IN /\ calls' = [calls EXCEPT ![c] = next.call]
        /\ logoCache' = next.cache
  /\ UNCHANGED <<posterCalls, validationVars, pureVars>>

\* The TMDB images request of call c ends with resp.
ImagesAnswer(c, resp) ==
  /\ calls[c].pc = "images"
  /\ LET call == [calls[c] EXCEPT !.answers = Append(@, AnswerKind(resp))]
         next == IF call.fault = "debug" /\ ImagesThrew(resp, call.language)
                   THEN Catch(call, logoCache)
                   ELSE AfterTmdb(call, logoCache, TmdbLogoOf(resp, call.language))
     IN /\ calls' = [calls EXCEPT ![c] = next.call]
        /\ logoCache' = next.cache
  /\ UNCHANGED <<posterCalls, validationVars, pureVars>>

\* The caller takes the result; the call's locals are gone.
ReturnLogo(c) ==
  /\ calls[c].pc = "done"
  /\ calls' = [calls EXCEPT ![c] = [IdleCall EXCEPT !.pc = "returned"]]
  /\ UNCHANGED <<logoCache, posterCalls, validationVars, pureVars>>

\* The TTL of an entry runs out.
ExpireLogo(key) ==
  /\ logoCache[key].present
  /\ logoCache' = [logoCache EXCEPT ![key] = Absent]
  /\ UNCHANGED <<calls, posterCalls, validationVars, pureVars>>

(***************************************************************************)
(* FanartTV.getPosterUrl (fanart.ts), split at its await of makeRequest.   *)
(***************************************************************************)
\* Up to makeRequest: the endpoint, or none (it returns null).
PosterEndpoint(type, id) ==
  LET imdbId == parseImdbId(id)
  IN IF ~Truthy(imdbId) THEN NoEndpoint
     ELSE IF type = Movie
       THEN [ok |-> TRUE, api |-> "fanart", path |-> <<"movies">>,
             id |-> imdbId.s, logoKey |-> "movieposter"]
     ELSE IF type = Series
       THEN [ok |-> TRUE, api |-> "fanart", path |-> <<"tv">>,
             id |-> imdbId.s, logoKey |-> "tvposter"]
     ELSE NoEndpoint

\* Number(v), as the subtraction of the comparator coerces its operands.
ToNumber(v) ==
  CASE v.t = "number" -> v
    [] v.t = "string" ->
         IF v.s = <<>> THEN Num(0)
         ELSE IF DigitRun(v.s) = Len(v.s) THEN Num(DecimalValue(v.s, 0))
         ELSE NaN
    [] v.t = "null" -> Num(0)
    [] OTHER -> NaN

\* (a, b) => (b.likes || 0) - (a.likes || 0)
ComparePosters(a, b) ==
  LET v == Minus(ToNumber(OrElse(b.likes, Num(0))), ToNumber(OrElse(a.likes, Num(0))))
  IN IF v.t = "NaN" THEN 0 ELSE v.n

RECURSIVE InsertPoster(_, _)
InsertPoster(x, sorted) ==
  IF sorted = <<>> THEN <<x>>
  ELSE IF ComparePosters(Head(sorted), x) > 0
         THEN <<x>> \o sorted
         ELSE <<Head(sorted)>> \o InsertPoster(x, Tail(sorted))

RECURSIVE SortPosters(_)
SortPosters(posters) ==
  IF posters = <<>> THEN <<>>
  ELSE InsertPoster(posters[Len(posters)], SortPosters(Take(posters, Len(posters) - 1)))

\* After makeRequest; every throw ends in the catch (null).
PosterUrlOf(resp, type) ==
  IF resp.kind = "throw" THEN Null
  ELSE IF ~Ok(resp) THEN Null
  ELSE IF resp.body.js = "invalid" THEN Null
  ELSE LET field == IF resp.body.js = "null" THEN NoField
                    ELSE IF type = Movie THEN resp.body.movieposter
                    ELSE IF type = Series THEN resp.body.tvposter
                    ELSE NoField
           posters == IF field.t = "array" THEN field.items ELSE <<>>
       IN IF Len(posters) = 0 THEN Null
          ELSE IF \E i \in 1..Len(posters) : posters[i].js = "null" THEN Null
          ELSE OrElse(SortPosters(posters)[1].url, Null)

(***************************************************************************)
(* ArtworkProvider: its constructor and getPosterUrl.  RPDB is outside the *)
(* sources: its constructor may throw on a bad key, and its getPosterUrl   *)
(* throws, returns null, or returns a URL.                                 *)
(***************************************************************************)
ThrownValue == [t |-> "throw", n |-> 0, s |-> <<>>]
UrlRpdb == Str(<<"rpdb/poster.jpg">>)
RpdbOutcomes == {ThrownValue, Null, UrlRpdb}

\* new FanartTV(apiKey) throws when the key is not set.
FanartTVThrows(apiKey) == ~apiKey

\* A constructor that asks for fanartApiKey alone.
ArtworkProvider_IgnoresEnabled(config, rpdbThrows) ==
  [threw |-> FALSE,
   rpdb |-> config.rpdbApiKey /\ ~rpdbThrows,
   fanart |-> config.fanartApiKey /\ ~FanartTVThrows(config.fanartApiKey)]

\* The constructor: which providers the instance holds.  Both provider
\* constructors run inside a try whose catch is empty, and nothing else in
\* the constructor can throw.
ArtworkProvider(config, rpdbThrows) ==
  [threw |-> FALSE,
   rpdb |-> config.rpdbApiKey /\ ~rpdbThrows,
   fanart |-> (config.fanartApiKey /\ config.fanartEnabled)
                /\ ~FanartTVThrows(config.fanartApiKey)]

\* return !!(this.rpdb || this.fanart)
hasProviders(instance) == instance.rpdb \/ instance.fanart

ArtworkConfigs ==
  [rpdbApiKey : BOOLEAN, fanartApiKey : BOOLEAN, fanartEnabled : BOOLEAN]

PosterIds ==
  { <<"t", "t", "1">>, <<"1">>, <<"t", "m", "d", "b", ":", "1">>, <<"x">> }

UrlP1 == Str(<<"fanart/p1.jpg">>)
UrlP2 == Str(<<"fanart/p2.jpg">>)
PosterA == Logo(UrlP1, Undefined, Str(<<"1">>), Undefined, Undefined, Undefined)
PosterB == Logo(UrlP2, Undefined, Str(<<"5">>), Undefined, Undefined, Undefined)
PosterNoUrl == Logo(Undefined, Undefined, Str(<<"5">>), Undefined, Undefined, Undefined)
PosterOdd == Logo(Num(42), Undefined, Str(<<"5">>), Undefined, Undefined, Undefined)
PosterBodies ==
  { InvalidBody, NullBody, EmptyBody,
    [EmptyBody EXCEPT !.movieposter = Arr(<<>>), !.tvposter = OtherField],
    [EmptyBody EXCEPT !.movieposter = Arr(<<PosterA, PosterB>>),
                      !.tvposter = Arr(<<PosterA, PosterB>>)],
    [EmptyBody EXCEPT !.movieposter = Arr(<<PosterA, NullLogo>>),
                      !.tvposter = Arr(<<NullLogo>>)],
    [EmptyBody EXCEPT !.movieposter = Arr(<<PosterNoUrl>>),
                      !.tvposter = Arr(<<PosterNoUrl, PosterA>>)],
    [EmptyBody EXCEPT !.movieposter = Arr(<<PosterOdd>>),
                      !.tvposter = Arr(<<PosterOdd>>)] }

(***************************************************************************)
(*   rpdb, fanart      the providers the instance holds                    *)
(*   rpdbPosterUrl     what rpdb.getPosterUrl gave (undefined: not called) *)
(*   fanartPosterUrl   what fanart.getPosterUrl gave (undefined: not       *)
(*                     called)                                             *)
(***************************************************************************)
IdlePoster ==
  [pc |-> "idle", config |-> [rpdbApiKey |-> FALSE, fanartApiKey |-> FALSE,
                              fanartEnabled |-> FALSE],
   rpdbThrows |-> FALSE, threw |-> FALSE,
   rpdb |-> FALSE, fanart |-> FALSE, type |-> <<>>, id |-> <<>>,
   rpdbPosterUrl |-> Undefined, fanartPosterUrl |-> Undefined,
   result |-> Undefined, requests |-> <<>>, answers |-> <<>>]

\* What getPosterUrl does with the value fanart.getPosterUrl returned.
AfterFanartPoster(call, url) ==
  [call EXCEPT !.pc = "done", !.fanartPosterUrl = url,
               !.result = IF Truthy(url) THEN url ELSE Null]

\* if (this.fanart) { ... await this.fanart.getPosterUrl(type, id) ... }
TryFanartPoster(call) ==
  IF call.fanart
    THEN LET endpoint == PosterEndpoint(call.type, call.id)
         IN IF endpoint.ok
              THEN [call EXCEPT !.pc = "fanart", !.requests = Append(@, endpoint)]
              ELSE AfterFanartPoster(call, Null)
    ELSE [call EXCEPT !.pc = "done", !.result = Null]

\* if (this.rpdb) { try { ... if (rpdbPosterUrl) return rpdbPosterUrl } catch {} }
EnterGetPosterUrl(call, rpdbOutcome) ==
  IF call.rpdb
    THEN LET tried == [call EXCEPT !.rpdbPosterUrl = rpdbOutcome]
         IN IF rpdbOutcome # ThrownValue /\ Truthy(rpdbOutcome)
              THEN [tried EXCEPT !.pc = "done", !.result = rpdbOutcome]
              ELSE TryFanartPoster(tried)
    ELSE TryFanartPoster(call)

getPosterUrl(c, config, rpdbThrows, type, id, rpdbOutcome) ==
  /\ posterCalls[c].pc = "idle"
  /\ IF c = 1 THEN TRUE ELSE posterCalls[c - 1].pc # "idle"
  /\ \A d \in Calls : posterCalls[d].pc \in {"idle", "returned"}
  /\ \A d \in Calls : calls[d].pc = "idle"
  /\ LET providers == ArtworkProvider(config, rpdbThrows)
     IN posterCalls' =
          [posterCalls EXCEPT ![c] =
             EnterGetPosterUrl([IdlePoster EXCEPT !.config = config,
                                  !.rpdbThrows = config.rpdbApiKey /\ rpdbThrows,
                                  !.threw = providers.threw,
                                  !.rpdb = providers.rpdb, !.fanart = providers.fanart,
                                  !.type = type, !.id = id], rpdbOutcome)]
  /\ UNCHANGED <<logoCache, calls, validationVars, pureVars>>

\* The Fanart.tv request of poster call c ends with resp.
PosterAnswer(c, resp) ==
  /\ posterCalls[c].pc = "fanart"
  /\ posterCalls' =
       [posterCalls EXCEPT ![c] =
          AfterFanartPoster([@ EXCEPT !.answers = Append(@, AnswerKind(resp))],
                            PosterUrlOf(resp, posterCalls[c].type))]
  /\ UNCHANGED <<logoCache, calls, validationVars, pureVars>>

ReturnPoster(c) ==
  /\ posterCalls[c].pc = "done"
  /\ posterCalls' = [posterCalls EXCEPT ![c] = [IdlePoster EXCEPT !.pc = "returned"]]
  /\ UNCHANGED <<logoCache, calls, validationVars, pureVars>>

(***************************************************************************)
(* FanartTV.validateApiKey, in its two variants: the poster client         *)
(* (fanart.ts) and the URL-building client.  Each module holds its         *)
(* apiKeyValidationCache; a cached outcome is a boolean.                   *)
(***************************************************************************)
Bool(b) == [t |-> "boolean", n |-> IF b THEN 1 ELSE 0, s |-> <<>>]

PosterClient == "fanart.ts"
UrlClient == "url-builder"
Variants == {PosterClient, UrlClient}
ApiKeys == {"key-a", "key-b"}
Statuses == {200, 204, 401, 404, 500}
ValidationAnswers == {Thrown} \cup {Response(st, EmptyBody) : st \in Statuses}

\* Env.RPDB_API_KEY_VALIDITY_CACHE_TTL, set by the environment.
AbsentOutcome == [present |-> FALSE, value |-> Undefined, ttl |-> "none"]
ValiditySet(cache, variant, apiKey, value) ==
  [cache EXCEPT ![variant][apiKey] =
     [present |-> TRUE, value |-> value, ttl |-> "RPDB_API_KEY_VALIDITY_CACHE_TTL"]]
ValidityGet(cache, variant, apiKey) ==
  IF cache[variant][apiKey].present THEN cache[variant][apiKey].value ELSE Undefined

IdleValidation ==
  [pc |-> "idle", variant |-> "none", apiKey |-> "none", cached |-> Undefined,
   result |-> Undefined, requests |-> 0, answer |-> "none", status |-> 0]

\* fanart.ts: if (cached !== undefined && cached !== null)
PosterClientHit(cached) == cached # Undefined /\ cached # Null
\* the URL-building client: if (cached)
UrlClientHit(cached) == Truthy(cached)

\* validateApiKey from its entry to its await of makeRequest, or its return.
EnterValidateApiKey(call, cache) ==
  LET cached == ValidityGet(cache, call.variant, call.apiKey)
      seen == [call EXCEPT !.cached = cached]
  IN IF call.variant = PosterClient
       THEN IF PosterClientHit(cached)
              THEN [seen EXCEPT !.pc = "done", !.result = Bool(Truthy(cached))]
              ELSE [seen EXCEPT !.pc = "request", !.requests = @ + 1]
       ELSE IF UrlClientHit(cached)
              THEN [seen EXCEPT !.pc = "done", !.result = cached]
              ELSE [seen EXCEPT !.pc = "request", !.requests = @ + 1]

\* fanart.ts after makeRequest: what it returns and what it caches.
PosterClientOutcome(resp) ==
  IF resp.kind = "throw" THEN [result |-> Bool(FALSE), cache |-> FALSE]
  ELSE IF Ok(resp) THEN [result |-> Bool(TRUE), cache |-> TRUE]
  ELSE IF resp.status = 401 THEN [result |-> Bool(FALSE), cache |-> TRUE]
  ELSE [result |-> Bool(FALSE), cache |-> FALSE]

\* The URL-building client after makeRequest: isValid = status !== 401.
UrlClientOutcome(resp) ==
  IF resp.kind = "throw" THEN [result |-> Bool(FALSE), cache |-> FALSE]
  ELSE [result |-> Bool(resp.status # 401), cache |-> TRUE]

validateApiKey(c, variant, apiKey) ==
  /\ validations[c].pc = "idle"
  /\ IF c = 1 THEN TRUE ELSE validations[c - 1].pc # "idle"
  /\ validations' =
       [validations EXCEPT ![c] =
          EnterValidateApiKey([IdleValidation EXCEPT !.variant = variant,
                                 !.apiKey = apiKey], apiKeyValidationCache)]
  /\ UNCHANGED <<apiKeyValidationCache, lookupVars, pureVars>>

\* The test request of validation c ends with resp.
ValidationAnswer(c, resp) ==
  /\ validations[c].pc = "request"
  /\ LET call == validations[c]
         outcome == IF call.variant = PosterClient THEN PosterClientOutcome(resp)
                    ELSE UrlClientOutcome(resp)
     IN /\ validations' = [validations EXCEPT ![c] =
                             [call EXCEPT !.pc = "done", !.result = outcome.result,
                                          !.answer = AnswerKind(resp),
                                          !.status = resp.status]]
        /\ apiKeyValidationCache' =
             IF outcome.cache
               THEN ValiditySet(apiKeyValidationCache, call.variant, call.apiKey,
                                outcome.result)
               ELSE apiKeyValidationCache
  /\ UNCHANGED <<lookupVars, pureVars>>

ReturnValidation(c) ==
  /\ validations[c].pc = "done"
  /\ validations' = [validations EXCEPT ![c] = [IdleValidation EXCEPT !.pc = "returned"]]
  /\ UNCHANGED <<apiKeyValidationCache, lookupVars, pureVars>>

\* The TTL of a cached outcome runs out.
ExpireValidation(variant, apiKey) ==
  /\ apiKeyValidationCache[variant][apiKey].present
  /\ apiKeyValidationCache' =
       [apiKeyValidationCache EXCEPT ![variant][apiKey] = AbsentOutcome]
  /\ UNCHANGED <<validations, lookupVars, pureVars>>

(***************************************************************************)
(* The ID parsers and the ranking selector applied to inputs drawn from    *)
(* bounded sets.  An id is built from a prefix, a run of digits and a      *)
(* suffix; a list of logos from a language and a score per position.       *)
(***************************************************************************)
IdPrefixes ==
  { <<>>, <<"t", "t">>, <<"t", "m", "d", "b", ":">>, <<"t", "m", "d", "b", "-">>,
    <<"t", "v", "d", "b", ":">>, <<"t", "v", "d", "b", "-">>,
    <<"t", "m", "d", "b">>, <<"t", "v", "d", "b">>, <<"t">>, <<"T", "T">>,
    <<"i", "m", "d", "b", ":">>, <<"t", "m", "d", "b", "_">>, <<"x", "t", "t">>,
    <<" ", "t", "t">>, <<"t", "t", "-">>, <<"t", "m", "d", "b", ":", ":">> }
IdDigits == {"0", "1", "9"}
DigitStrings == UNION {[1..n -> IdDigits] : n \in 0..MaxDigits}
GoodSuffixes == { <<>>, <<":", "1", ":", "2">>, <<":", "1", "0", ":", "0", "2">> }
BadSuffixes ==
  { <<":", "1">>, <<":", "1", ":">>, <<":", "1", ":", "2", ":", "3">>, <<":", ":">>,
    <<":", "a", ":", "1">>, <<"x">>, <<":", "1", ":", "2", "x">>, <<" ">>,
    <<":">>, <<".", "5">> }
IdSuffixes == GoodSuffixes \cup BadSuffixes
PosterTypes == {Movie, Series, Tv}

IdleInput == [kind |-> "none"]
IdleOutput == [kind |-> "none"]

IdOf(in) == in.pre \o in.digits \o in.suf

\* A prefix without its separator, no digits and a suffix that starts with
\* ":" spell an id that another prefix already spells ("tmdb" ++ ":1").
SpelledTwice(in) ==
  /\ in.pre \in {LitTmdb, LitTvdb}
  /\ in.digits = <<>>
  /\ in.suf # <<>>
  /\ Head(in.suf) = ":"

InitParse ==
  /\ input \in {in \in [kind : {"id"}, pre : IdPrefixes, digits : DigitStrings,
                         suf : IdSuffixes, type : PosterTypes] : ~SpelledTwice(in)}
  /\ output = [kind |-> "id", ran |-> {}, externalId |-> NullId, parsedId |-> NullId,
               imdbId |-> Null]

RunParseExternalId ==
  /\ input.kind = "id"
  /\ "parseExternalId" \notin output.ran
  /\ output' = [output EXCEPT !.ran = @ \cup {"parseExternalId"},
                              !.externalId = parseExternalId(IdOf(input))]
  /\ UNCHANGED <<input, lookupVars, validationVars>>

RunGetParsedId ==
  /\ input.kind = "id"
  /\ "getParsedId" \notin output.ran
  /\ output' = [output EXCEPT !.ran = @ \cup {"getParsedId"},
                              !.parsedId = getParsedId(IdOf(input), input.type)]
  /\ UNCHANGED <<input, lookupVars, validationVars>>

RunParseImdbId ==
  /\ input.kind = "id"
  /\ "parseImdbId" \notin output.ran
  /\ output' = [output EXCEPT !.ran = @ \cup {"parseImdbId"},
                              !.imdbId = parseImdbId(IdOf(input))]
  /\ UNCHANGED <<input, lookupVars, validationVars>>

\* The languages and scores of the candidates; a score of -1 stands for a
\* missing score field.
LangFr == <<"f", "r">>
CandidateLanguages == {Str(LangEn), Str(LangFr), Null, Str(<<>>)}
MissingScore == 0 - 1
CandidateScores == {MissingScore, 0, 1, 5, 9}
\* A score of -2 stands for a score field that holds text parseFloat cannot
\* read: "n/a".
NonNumericScore == 0 - 2
NonNumericText == Str(<<"n", "/", "a">>)
PreferredLanguages == {LangEn, LangFr}
LanguageKeys == {"lang", "iso_639_1"}

\* The logo at position i of a provider's list: Fanart.tv carries lang and
\* likes (a string), TMDB iso_639_1 and vote_average (a number).
MakeLogo(i, cand, languageKey) ==
  IF languageKey = "lang"
    THEN Logo(Str(<<"fanart/logo", NatDigits(i)>>), cand.lang,
              IF cand.score = MissingScore THEN Undefined
              ELSE IF cand.score = NonNumericScore THEN NonNumericText
              ELSE Str(NatDigits(cand.score)),
              Undefined, Undefined, Undefined)
    ELSE Logo(Undefined, Undefined, Undefined,
              Str(<<"/logo", NatDigits(i)>>), cand.lang,
              IF cand.score = MissingScore THEN Undefined
              ELSE IF cand.score = NonNumericScore THEN NonNumericText
              ELSE Num(cand.score))
MakeLogos(in) ==
  [i \in 1..Len(in.cands) |-> MakeLogo(i, in.cands[i], in.languageKey)]

InitSelect ==
  /\ input \in [kind : {"logos"},
                cands : UNION {[1..n -> [lang : CandidateLanguages,
                                         score : CandidateScores]] : n \in 0..MaxLogos},
                preferredLanguage : PreferredLanguages,
                languageKey : LanguageKeys]
  /\ output = [kind |-> "logos", ran |-> FALSE, selected |-> NullLogo]

\* Lists whose scores may be missing or non-numeric.
ScoredLanguages == {Str(LangEn), Str(LangFr)}
ScoredValues == {MissingScore, NonNumericScore, 0, 5}
InitScore ==
  /\ input \in [kind : {"logos"},
                cands : UNION {[1..n -> [lang : ScoredLanguages,
                                         score : ScoredValues]] : n \in 0..MaxLogos},
                preferredLanguage : {LangEn},
                languageKey : LanguageKeys]
  /\ output = [kind |-> "logos", ran |-> FALSE, selected |-> NullLogo]

RunSelectBestLogo ==
  /\ input.kind = "logos"
  /\ ~output.ran
  /\ output' = [output EXCEPT !.ran = TRUE,
                  !.selected = selectBestLogo(MakeLogos(input), input.preferredLanguage,
                                              input.languageKey)]
  /\ UNCHANGED <<input, lookupVars, validationVars>>

(***************************************************************************)
(* The specifications.                                                     *)
(***************************************************************************)
InitLookups ==
  /\ logoCache = [k \in LogoKeys |-> Absent]
  /\ calls = [c \in Calls |-> IdleCall]
  /\ posterCalls = [c \in Calls |-> IdlePoster]
InitValidations ==
  /\ apiKeyValidationCache = [v \in Variants |-> [k \in ApiKeys |-> AbsentOutcome]]
  /\ validations = [c \in Calls |-> IdleValidation]
InitPure ==
  /\ input = IdleInput
  /\ output = IdleOutput

Init == InitLookups /\ InitValidations /\ InitPure

Next ==
  \/ \E c \in Calls, id \in LogoIds, type \in MediaTypes, language \in Languages,
        tmdbAccessToken \in BOOLEAN, fanartApiKey \in BOOLEAN :
       getLogo(c, id, type, language, tmdbAccessToken, fanartApiKey)
  \/ \E c \in Calls, resp \in Responses(FanartBodies) : FanartAnswer(c, resp)
  \/ \E c \in Calls, resp \in Responses(FindBodies) : FindAnswer(c, resp)
  \/ \E c \in Calls, resp \in Responses(ImagesBodies) : ImagesAnswer(c, resp)
  \/ \E c \in Calls : ReturnLogo(c)
  \/ \E key \in LogoKeys : ExpireLogo(key)
  \/ \E c \in Calls, config \in ArtworkConfigs, rpdbThrows \in BOOLEAN,
        type \in MediaTypes, id \in PosterIds, rpdbOutcome \in RpdbOutcomes :
       getPosterUrl(c, config, rpdbThrows, type, id, rpdbOutcome)
  \/ \E c \in Calls, resp \in Responses(PosterBodies) : PosterAnswer(c, resp)
  \/ \E c \in Calls : ReturnPoster(c)

Spec == Init /\ [][Next]_vars

\* validateApiKey calls, interleaved at their awaits.
NextValidate ==
  \/ \E c \in Calls, variant \in Variants, apiKey \in ApiKeys :
       validateApiKey(c, variant, apiKey)
  \/ \E c \in Calls, resp \in ValidationAnswers : ValidationAnswer(c, resp)
  \/ \E c \in Calls : ReturnValidation(c)
  \/ \E variant \in Variants, apiKey \in ApiKeys : ExpireValidation(variant, apiKey)

SpecValidate == Init /\ [][NextValidate]_vars

\* The three ID parsers on one id.
NextParse == RunParseExternalId \/ RunGetParsedId \/ RunParseImdbId

InitParseSpec == InitLookups /\ InitValidations /\ InitParse
SpecParse == InitParseSpec /\ [][NextParse]_vars

\* selectBestLogo on one list.
NextSelect == RunSelectBestLogo

InitSelectSpec == InitLookups /\ InitValidations /\ InitSelect
SpecSelect == InitSelectSpec /\ [][NextSelect]_vars

(***************************************************************************)
(* Concurrent getLogo calls for one key, on LogoService instances that     *)
(* share the 'logo' cache singleton and may hold different keys and        *)
(* tokens.  The calls interleave at their awaits.  The external truth is   *)
(* fixed: each endpoint gives every caller the same answer, held in input. *)
(***************************************************************************)
RaceId == <<"t", "m", "d", "b", ":", "1">>
RaceKey == CacheKey(RaceId, Movie, LangEn)
FanartTruths ==
  { Thrown, Response(200, EmptyBody),
    Response(200, [EmptyBody EXCEPT !.movielogo = Arr(<<FanartLogoA, FanartLogoB>>)]) }
ImagesTruths ==
  { Response(500, EmptyBody),
    Response(200, [EmptyBody EXCEPT !.logos = Arr(<<TmdbLogoA, TmdbLogoB>>)]) }

InitRace ==
  /\ input \in [kind : {"truth"}, fanart : FanartTruths, images : ImagesTruths]
  /\ output = IdleOutput

\* A caller enters getLogo while other calls may be awaiting their requests.
getLogoConcurrently(c, tmdbAccessToken, fanartApiKey) ==
  /\ calls[c].pc = "idle"
  /\ IF c = 1 THEN TRUE ELSE calls[c - 1].pc # "idle"
  /\ LET next == EnterGetLogo([IdleCall EXCEPT !.id = RaceId, !.type = Movie,
                                 !.language = LangEn,
                                 !.tmdbAccessToken = tmdbAccessToken,
                                 !.fanartApiKey = fanartApiKey], logoCache)
     IN /\ calls' = [calls EXCEPT ![c] = next.call]
        /\ logoCache' = next.cache
  /\ UNCHANGED <<posterCalls, validationVars, pureVars>>

NextRace ==
  \/ \E c \in Calls, tmdbAccessToken \in BOOLEAN, fanartApiKey \in BOOLEAN :
       getLogoConcurrently(c, tmdbAccessToken, fanartApiKey)
  \/ \E c \in Calls : FanartAnswer(c, input.fanart)
  \/ \E c \in Calls : ImagesAnswer(c, input.images)

InitRaceSpec == InitLookups /\ InitValidations /\ InitRace
SpecRace == InitRaceSpec /\ [][NextRace]_vars

(***************************************************************************)
(* getLogo calls during which a collaborator of getLogo may throw: the     *)
(* cache's get or set, or logger.debug.                                    *)
(***************************************************************************)
getLogoWithFault(c, id, type, language, tmdbAccessToken, fanartApiKey, fault) ==
  /\ calls[c].pc = "idle"
  /\ IF c = 1 THEN TRUE ELSE calls[c - 1].pc # "idle"
  /\ \A d \in Calls : calls[d].pc \in {"idle", "returned"}
  /\ LET next == EnterGetLogo([IdleCall EXCEPT !.id = id, !.type = type,
                                 !.language = language,
                                 !.tmdbAccessToken = tmdbAccessToken,
                                 !.fanartApiKey = fanartApiKey,
                                 !.fault = fault], logoCache)
     IN /\ calls' = [calls EXCEPT ![c] = next.call]
        /\ logoCache' = next.cache
  /\ UNCHANGED <<posterCalls, validationVars, pureVars>>

NextFault ==
  \/ \E c \in Calls, id \in LogoIds, type \in MediaTypes, language \in Languages,
        tmdbAccessToken \in BOOLEAN, fanartApiKey \in BOOLEAN, fault \in LogoFaults :
       getLogoWithFault(c, id, type, language, tmdbAccessToken, fanartApiKey, fault)
  \/ \E c \in Calls, resp \in Responses(FanartBodies) : FanartAnswer(c, resp)
  \/ \E c \in Calls, resp \in Responses(FindBodies) : FindAnswer(c, resp)
  \/ \E c \in Calls, resp \in Responses(ImagesBodies) : ImagesAnswer(c, resp)
  \/ \E c \in Calls : ReturnLogo(c)
  \/ \E key \in LogoKeys : ExpireLogo(key)

SpecFault == Init /\ [][NextFault]_vars

\* selectBestLogo on one list whose scores may be missing or non-numeric.
InitScoreSpec == InitLookups /\ InitValidations /\ InitScore
SpecScore == InitScoreSpec /\ [][NextSelect]_vars

(***************************************************************************)
(* Properties of the lookups, over the behaviours of Spec.                  *)
(***************************************************************************)
\* A step in which call c enters getLogo.
Enters(c) == calls[c].pc = "idle" /\ calls'[c].pc # "idle"

TmdbApis == {"tmdb-find", "tmdb-images"}
AskedTmdb(call) == \E i \in 1..Len(call.requests) : call.requests[i].api \in TmdbApis

\* C1: a getLogo call made while the cache holds an unexpired entry for its
\* (id, type, language) - an entry a completed call wrote - returns exactly
\* the value of that entry and issues no network request.
C1_CachedValueReturned ==
  [][\A c \in Calls :
       (Enters(c) /\ logoCache[KeyOf(calls'[c])].present)
         => /\ calls'[c].pc = "done"
            /\ calls'[c].result = logoCache[KeyOf(calls'[c])].value
            /\ calls'[c].requests = <<>>
            /\ logoCache' = logoCache]_vars

\* A call has returned a logo URL from the cache, without a request.
C1_Witness ==
  \E c \in Calls :
    /\ calls[c].pc = "done"
    /\ calls[c].cachedLogo.t = "string"
    /\ calls[c].result = calls[c].cachedLogo
    /\ calls[c].requests = <<>>

\* C2: a cached null is a hit: a getLogo call made while the cache holds
\* null for its key returns null without parsing the id and without a
\* request; parseExternalId is called, and a provider asked, only by a call
\* that found no entry for its key.
C2_CachedNullIsHit ==
  [][\A c \in Calls :
       Enters(c) =>
         LET entry == logoCache[KeyOf(calls'[c])]
         IN /\ (entry.present /\ entry.value = Null)
                 => /\ calls'[c].pc = "done"
                    /\ calls'[c].result = Null
                    /\ ~calls'[c].parsed
                    /\ calls'[c].requests = <<>>
            /\ calls'[c].parsed <=> ~entry.present
            /\ calls'[c].requests # <<>> => ~entry.present]_vars

\* A call has found null in the cache and returned it unparsed.
C2_Witness ==
  \E c \in Calls :
    /\ calls[c].pc = "done"
    /\ calls[c].cachedLogo = Null
    /\ calls[c].result = Null
    /\ ~calls[c].parsed
    /\ calls[c].requests = <<>>

\* C3: the fallback chain short-circuits: when RPDB gives a URL,
\* fanart.getPosterUrl is not invoked and the RPDB URL is the result; when
\* getFanartLogo gives a logo, no TMDB request is made and the Fanart.tv
\* logo is the result.
C3_ShortCircuit ==
  /\ \A c \in Calls :
       LET call == posterCalls[c]
       IN (call.rpdbPosterUrl.t = "string")
            => /\ call.fanartPosterUrl = Undefined
               /\ call.requests = <<>>
               /\ call.pc = "done"
               /\ call.result = call.rpdbPosterUrl
  /\ \A c \in Calls :
       LET call == calls[c]
       IN Truthy(call.fanartLogo)
            => /\ ~AskedTmdb(call)
               /\ call.tmdbLogo = Undefined
               /\ call.pc = "done"
               /\ call.result = call.fanartLogo

\* Fanart.tv gave a logo to a call that also holds a TMDB token.
C3_Witness ==
  \E c \in Calls :
    /\ calls[c].pc = "done"
    /\ calls[c].tmdbAccessToken
    /\ Len(calls[c].requests) = 1
    /\ calls[c].fanartLogo = UrlF2
    /\ calls[c].result = UrlF2

\* RPDB gave a URL to an instance that also holds the Fanart.tv provider.
C3_PosterCase ==
  \E c \in Calls :
    /\ posterCalls[c].pc = "done"
    /\ posterCalls[c].fanart
    /\ posterCalls[c].rpdbPosterUrl = UrlRpdb
    /\ posterCalls[c].result = UrlRpdb

\* Null for a value that is not truthy.
OrNull(v) == IF Truthy(v) THEN v ELSE Null

\* C4: a failing higher-priority provider does not abort the chain: when
\* rpdb.getPosterUrl throws and the instance holds the Fanart.tv provider,
\* fanart.getPosterUrl is invoked and its URL, or null, is the result; when
\* the Fanart.tv request of getLogo throws or is answered with a non-OK
\* status and a TMDB token is set, TMDB is asked and its logo, or null, is
\* the result.
C4_FailureFallsThrough ==
  /\ \A c \in Calls :
       LET call == posterCalls[c]
       IN (call.rpdbPosterUrl = ThrownValue /\ call.fanart)
            => /\ call.pc \in {"fanart", "done"}
               /\ call.pc = "done"
                    => /\ call.fanartPosterUrl # Undefined
                       /\ call.result = OrNull(call.fanartPosterUrl)
  /\ \A c \in Calls :
       LET call == calls[c]
       IN (/\ call.answers # <<>>
           /\ call.requests[1].api = "fanart"
           /\ call.answers[1] \in {"throw", "notok"}
           /\ call.tmdbAccessToken)
            => /\ Len(call.requests) >= 2
               /\ call.requests[2].api \in TmdbApis
               /\ call.pc \in {"find", "images", "done"}
               /\ call.pc = "done"
                    => /\ call.tmdbLogo # Undefined
                       /\ call.result = OrNull(call.tmdbLogo)

\* The Fanart.tv request threw and TMDB's logo was returned.
C4_Witness ==
  \E c \in Calls :
    /\ calls[c].pc = "done"
    /\ calls[c].tmdbAccessToken
    /\ Len(calls[c].answers) >= 2
    /\ calls[c].answers[1] = "throw"
    /\ calls[c].requests[1].api = "fanart"
    /\ calls[c].tmdbLogo.t = "string"
    /\ calls[c].result = calls[c].tmdbLogo

\* rpdb.getPosterUrl threw and the Fanart.tv poster was returned.
C4_PosterCase ==
  \E c \in Calls :
    /\ posterCalls[c].pc = "done"
    /\ posterCalls[c].rpdbPosterUrl = ThrownValue
    /\ posterCalls[c].result = UrlP2

\* C5: the public lookups are total: whatever the id, the configuration and
\* the providers' answers, getPosterUrl and getLogo resolve to a URL string
\* or to null.
C5_Total ==
  /\ \A c \in Calls :
       calls[c].pc = "done" => calls[c].result.t \in {"string", "null"}
  /\ \A c \in Calls :
       posterCalls[c].pc = "done" => posterCalls[c].result.t \in {"string", "null"}

(***************************************************************************)
(* Properties of the ranking selector, over the behaviours of SpecSelect.   *)
(***************************************************************************)
\* The tier and the score of a candidate, as the selector's contract has
\* them.
TierOf(cand, preferredLanguage) ==
  IF cand.lang = Str(preferredLanguage) THEN 4
  ELSE IF cand.lang = Str(LangEn) THEN 3
  ELSE IF cand.lang \in {Null, Str(<<>>)} THEN 2
  ELSE 1
ScoreOf(cand) == IF cand.score = MissingScore THEN 0 ELSE cand.score

\* Candidate i ranks at least as high as candidate j.
RanksAtLeast(in, i, j) ==
  LET ti == TierOf(in.cands[i], in.preferredLanguage)
      tj == TierOf(in.cands[j], in.preferredLanguage)
  IN ti > tj \/ (ti = tj /\ ScoreOf(in.cands[i]) >= ScoreOf(in.cands[j]))
\* The positions of the candidates no other candidate outranks.
TopPositions(in) ==
  {i \in 1..Len(in.cands) : \A j \in 1..Len(in.cands) : RanksAtLeast(in, i, j)}

\* C6: selectBestLogo returns null on an empty list; on a non-empty list it
\* returns a candidate of the highest tier present whose score is the
\* highest of that tier: a lower tier never wins over a higher one.
C6_TierThenScore ==
  (input.kind = "logos" /\ output.ran) =>
    IF Len(input.cands) = 0
      THEN output.selected = NullLogo
      ELSE \E i \in TopPositions(input) : output.selected = MakeLogos(input)[i]

\* [{fr, 5}, {en, 1}, {null, 9}] with preferred 'en' gives the 'en' item.
C6_Witness ==
  /\ input.kind = "logos"
  /\ output.ran
  /\ input.preferredLanguage = LangEn
  /\ input.cands = << [lang |-> Str(LangFr), score |-> 5],
                      [lang |-> Str(LangEn), score |-> 1],
                      [lang |-> Null, score |-> 9] >>
  /\ output.selected = MakeLogos(input)[2]

\* C7: selectBestLogo is stable: of several candidates that share the top
\* (tier, score), the first in the provider's order is returned.
C7_FirstOfTies ==
  (input.kind = "logos" /\ output.ran /\ Len(input.cands) > 0) =>
    \E i \in TopPositions(input) :
      /\ \A j \in TopPositions(input) : i <= j
      /\ output.selected = MakeLogos(input)[i]

\* Two candidates tie for the top after a lower-ranked first one.
C7_Witness ==
  /\ input.kind = "logos"
  /\ output.ran
  /\ Len(input.cands) = 3
  /\ TopPositions(input) = {2, 3}
  /\ output.selected = MakeLogos(input)[2]

\* The score of a candidate when a missing or non-numeric score counts as 0.
ZeroedScore(cand) ==
  IF cand.score \in {MissingScore, NonNumericScore} THEN 0 ELSE cand.score
RanksAtLeastZeroed(in, i, j) ==
  LET ti == TierOf(in.cands[i], in.preferredLanguage)
      tj == TierOf(in.cands[j], in.preferredLanguage)
  IN ti > tj \/ (ti = tj /\ ZeroedScore(in.cands[i]) >= ZeroedScore(in.cands[j]))
TopZeroed(in) ==
  {i \in 1..Len(in.cands) : \A j \in 1..Len(in.cands) : RanksAtLeastZeroed(in, i, j)}

\* C13: a candidate whose score is missing or non-numeric is ranked as if
\* its score were 0: the logo selected is the first of those that rank
\* highest by (tier, score) once every such score is read as 0.
C13_MissingOrNonNumericIsZero ==
  (input.kind = "logos" /\ output.ran /\ Len(input.cands) > 0) =>
    \E i \in TopZeroed(input) :
      /\ \A j \in TopZeroed(input) : i <= j
      /\ output.selected = MakeLogos(input)[i]

(***************************************************************************)
(* Properties of the ID parsers, over the behaviours of SpecParse.          *)
(***************************************************************************)
KindOfPrefix(pre) ==
  CASE pre = LitTt -> "imdb"
    [] pre \in {LitTmdb \o <<":">>, LitTmdb \o <<"-">>} -> "tmdb"
    [] pre \in {LitTvdb \o <<":">>, LitTvdb \o <<"-">>} -> "tvdb"
    [] OTHER -> "none"
\* tmdb[-:]<digits>, tt<digits> or tvdb[-:]<digits>, with or without
\* :<digits>:<digits>.
WellFormed(in) ==
  KindOfPrefix(in.pre) # "none" /\ in.digits # <<>> /\ in.suf \in GoodSuffixes

\* C8: parseExternalId maps a well-formed id to its kind and value: the
\* bare digits for tmdb and tvdb, 'tt' and the digits for imdb; the
\* season/episode suffix is not part of the value.
C8_ParsesWellFormed ==
  (input.kind = "id" /\ "parseExternalId" \in output.ran /\ WellFormed(input)) =>
    output.externalId =
      [type |-> KindOfPrefix(input.pre),
       value |-> IF KindOfPrefix(input.pre) = "imdb" THEN LitTt \o input.digits
                 ELSE input.digits]

\* An imdb id with a season/episode suffix has been parsed.
C8_Witness ==
  /\ input.kind = "id"
  /\ "parseExternalId" \in output.ran
  /\ input.pre = LitTt
  /\ input.digits = <<"0", "1">>
  /\ input.suf = <<":", "1", ":", "2">>
  /\ output.externalId = [type |-> "imdb", value |-> <<"t", "t", "0", "1">>]

BareDigits(in) == in.pre = <<>> /\ in.digits # <<>> /\ in.suf \in GoodSuffixes

C11_CachesOnly2xxAnd401 ==
  [][\A c \in Calls :
       (validations[c].pc = "request" /\ validations'[c].pc = "done") =>
         LET call == validations'[c]
         IN IF call.answer = "ok"
              THEN apiKeyValidationCache' =
                     ValiditySet(apiKeyValidationCache, call.variant, call.apiKey,
                                 Bool(TRUE))
            ELSE IF call.answer = "notok" /\ call.status = 401
              THEN apiKeyValidationCache' =
                     ValiditySet(apiKeyValidationCache, call.variant, call.apiKey,
                                 Bool(FALSE))
            ELSE apiKeyValidationCache' = apiKeyValidationCache]_vars

\* The ids of the lookups that match one of the three patterns.
ParseableLogoIds ==
  { <<"t", "m", "d", "b", ":", "1">>, <<"t", "t", "1">>,
    <<"t", "v", "d", "b", ":", "1">> }

\* C14: a getLogo call that misses the cache with an id no pattern matches
\* writes null under its (id, type, language) key with the 24h TTL, returns
\* null and issues no request, whatever key and token are configured.
C14_UnparseableCachedAsNull ==
  [][\A c \in Calls :
       (/\ Enters(c)
        /\ ~logoCache[KeyOf(calls'[c])].present
        /\ calls'[c].id \notin ParseableLogoIds)
         => /\ calls'[c].pc = "done"
            /\ calls'[c].result = Null
            /\ calls'[c].requests = <<>>
            /\ calls'[c].writes =
                 << [key |-> KeyOf(calls'[c]), value |-> Null, ttl |-> 86400] >>
            /\ logoCache' =
                 [logoCache EXCEPT ![KeyOf(calls'[c])] =
                    [present |-> TRUE, value |-> Null, ttl |-> 86400]]]_vars

\* A call with key and token configured met an id it could not parse.
C14_Witness ==
  \E c \in Calls :
    /\ calls[c].pc = "done"
    /\ calls[c].id = <<"x">>
    /\ calls[c].fanartApiKey
    /\ calls[c].tmdbAccessToken
    /\ calls[c].cachedLogo = Undefined
    /\ calls[c].result = Null
    /\ calls[c].requests = <<>>
    /\ logoCache[KeyOf(calls[c])] = [present |-> TRUE, value |-> Null, ttl |-> 86400]

\* A step in which call c returns its result.
Completes(c) == calls[c].pc # "done" /\ calls'[c].pc = "done"

\* C15: when a getLogo call that missed the cache returns, the cache holds
\* under the call's key the value returned, and that value is the logo
\* getFanartLogo gave, else the logo getTmdbLogo gave, else null.
C15_CacheHoldsReturned ==
  [][\A c \in Calls :
       (Completes(c) /\ calls'[c].cachedLogo = Undefined) =>
         LET call == calls'[c]
         IN /\ logoCache'[KeyOf(call)].present
            /\ logoCache'[KeyOf(call)].value = call.result
            /\ call.result = IF Truthy(call.fanartLogo) THEN call.fanartLogo
                              ELSE IF Truthy(call.tmdbLogo) THEN call.tmdbLogo
                              ELSE Null]_vars

\* Fanart.tv had no logo, TMDB had one: it was returned and is cached.
C15_Witness ==
  \E c \in Calls :
    /\ calls[c].pc = "done"
    /\ calls[c].cachedLogo = Undefined
    /\ calls[c].fanartLogo = Null
    /\ calls[c].tmdbLogo.t = "string"
    /\ calls[c].result = calls[c].tmdbLogo
    /\ logoCache[KeyOf(calls[c])].present
    /\ logoCache[KeyOf(calls[c])].value = calls[c].tmdbLogo

\* C16: getLogo caches null only for a definitive null: the id could not be
\* parsed, or every provider request of the call was answered with an OK
\* status; a request that threw or was answered with a non-OK status does
\* not end in a cached null.
C16_NullCachedOnlyWhenDefinitive ==
  [][\A c \in Calls :
       (/\ Completes(c)
        /\ calls'[c].writes # <<>>
        /\ calls'[c].writes[1].value = Null)
         => \A i \in 1..Len(calls'[c].answers) : calls'[c].answers[i] = "ok"]_vars

\* The kind of the id of a lookup.
KindOfLogoId(id) ==
  CASE id = <<"t", "m", "d", "b", ":", "1">> -> "tmdb"
    [] id = <<"t", "t", "1">> -> "imdb"
    [] id = <<"t", "v", "d", "b", ":", "1">> -> "tvdb"
    [] OTHER -> "none"
\* Fanart.tv serves movies by tmdb id and series by tvdb id.
FanartServes(type, kind) ==
  \/ type = Movie /\ kind = "tmdb"
  \/ type \in {Series, Tv} /\ kind = "tvdb"
\* Every request of the call went to a provider that is configured and
\* serves the call's content type and kind of id.
OnlyConfiguredServable(call) ==
  \A i \in 1..Len(call.requests) :
    /\ call.requests[i].api = "fanart"
         => call.fanartApiKey /\ FanartServes(call.type, KindOfLogoId(call.id))
    /\ call.requests[i].api \in TmdbApis => call.tmdbAccessToken
    /\ call.requests[i].api \in TmdbApis \cup {"fanart"}
\* A getLogo call that holds neither key nor token is under way or done.
Unconfigured(call) ==
  call.pc \notin {"idle", "returned"} /\ ~call.fanartApiKey /\ ~call.tmdbAccessToken

\* C17, as the specification has it: a request goes to a provider only if
\* it is configured and serves the (content type, id kind) pair, and a call
\* with neither key nor token issues no request and returns null.
C17_UnconfiguredReturnsNull ==
  \A c \in Calls :
    /\ OnlyConfiguredServable(calls[c])
    /\ Unconfigured(calls[c])
         => /\ calls[c].pc = "done"
            /\ calls[c].requests = <<>>
            /\ calls[c].result = Null

\* C17, amended: a request goes to a provider only if it is configured and
\* serves the (content type, id kind) pair; a call with neither key nor
\* token issues no request, and returns null on a cache miss and the cached
\* value on a cache hit.
C17_OnlyConfiguredServable ==
  \A c \in Calls :
    /\ OnlyConfiguredServable(calls[c])
    /\ Unconfigured(calls[c])
         => /\ calls[c].pc = "done"
            /\ calls[c].requests = <<>>
            /\ calls[c].result = IF calls[c].cachedLogo = Undefined THEN Null
                                  ELSE calls[c].cachedLogo

\* A call with neither key nor token returned a logo another instance had
\* cached.
C17_Witness ==
  \E c \in Calls :
    /\ Unconfigured(calls[c])
    /\ calls[c].pc = "done"
    /\ calls[c].requests = <<>>
    /\ calls[c].cachedLogo.t = "string"
    /\ calls[c].result = calls[c].cachedLogo

\* A call with neither key nor token missed the cache and returned null.
C17_MissCase ==
  \E c \in Calls :
    /\ Unconfigured(calls[c])
    /\ calls[c].id = <<"t", "t", "1">>
    /\ calls[c].cachedLogo = Undefined
    /\ calls[c].requests = <<>>
    /\ calls[c].result = Null

\* The value of the id of a lookup: its digits, after tt for an IMDb id.
ValueOfLogoId(id) == IF KindOfLogoId(id) = "imdb" THEN id ELSE <<"1">>
\* The tmdb id the find endpoint answers with, when it answers with one.
FoundTmdbId == <<"7">>

HasFind(call) == \E i \in 1..Len(call.requests) : call.requests[i].api = "tmdb-find"
\* The call missed the cache, parsed its id, and is past Fanart.tv without
\* a logo.
ReachedTmdb(call) ==
  /\ call.pc \in {"find", "images", "done"}
  /\ call.cachedLogo = Undefined
  /\ KindOfLogoId(call.id) # "none"
  /\ ~Truthy(call.fanartLogo)
  /\ call.tmdbAccessToken

\* getTmdbLogo translates an id that is not a tmdb id: the find request
\* comes first and carries the id, the images request follows an answered
\* find and carries the id found, and a failed find ends the provider's
\* attempt with null.
TmdbTranslates(call) ==
  LET kind == KindOfLogoId(call.id)
  IN /\ \A i \in 1..Len(call.requests) :
          LET req == call.requests[i]
          IN /\ req.api = "tmdb-find"
                  => /\ kind \in {"imdb", "tvdb"}
                     /\ req.path = <<kind>>
                     /\ req.id = ValueOfLogoId(call.id)
                     /\ (Len(call.answers) >= i /\ call.answers[i] \in {"throw", "notok"})
                          => ~Truthy(call.tmdbId)
                     /\ (Len(call.answers) >= i /\ ~Truthy(call.tmdbId))
                          => /\ Len(call.requests) = i
                             /\ call.pc = "done"
                             /\ call.tmdbLogo = Null
                             /\ call.result = Null
             /\ req.api = "tmdb-images"
                  => IF kind = "tmdb"
                       THEN req.id = ValueOfLogoId(call.id) /\ ~HasFind(call)
                       ELSE /\ i >= 2
                            /\ call.requests[i - 1].api = "tmdb-find"
                            /\ call.answers[i - 1] = "ok"
                            /\ req.id = FoundTmdbId
     /\ (ReachedTmdb(call) /\ kind \in {"imdb", "tvdb"}) => HasFind(call)

\* A movie looked up by an imdb or tvdb id, by a call that holds the
\* Fanart.tv key and has parsed the id.
FanartLacksTmdbId(call) ==
  /\ call.pc \notin {"idle", "returned"}
  /\ call.cachedLogo = Undefined
  /\ call.fanartApiKey
  /\ call.type = Movie
  /\ KindOfLogoId(call.id) \in {"imdb", "tvdb"}

\* C18, as the specification has it: whenever the id is not of the kind a
\* provider needs, a find request maps it to a tmdb id before the
\* provider's artwork request - for Fanart.tv as for TMDB.
C18_EveryProviderTranslates ==
  \A c \in Calls :
    /\ TmdbTranslates(calls[c])
    /\ FanartLacksTmdbId(calls[c])
         => /\ calls[c].requests # <<>>
            /\ calls[c].requests[1].api = "tmdb-find"

\* C18, amended: only getTmdbLogo translates.  getFanartLogo, given an id
\* that is not of the kind it needs, returns null without any request: no
\* find request is made on its behalf, and Fanart.tv is not asked.
C18_OnlyTmdbTranslates ==
  \A c \in Calls :
    /\ TmdbTranslates(calls[c])
    /\ FanartLacksTmdbId(calls[c])
         => /\ calls[c].fanartLogo = Null
            /\ \A i \in 1..Len(calls[c].requests) :
                 /\ calls[c].requests[i].api # "fanart"
                 /\ calls[c].requests[i].api = "tmdb-find" => calls[c].tmdbAccessToken

\* An imdb id was translated and the images were asked under the id found.
C18_Witness ==
  \E c \in Calls :
    /\ calls[c].pc = "done"
    /\ calls[c].id = <<"t", "t", "1">>
    /\ calls[c].fanartApiKey
    /\ calls[c].type = Movie
    /\ calls[c].fanartLogo = Null
    /\ Len(calls[c].requests) = 2
    /\ calls[c].requests[1].api = "tmdb-find"
    /\ calls[c].requests[1].id = <<"t", "t", "1">>
    /\ calls[c].requests[2].api = "tmdb-images"
    /\ calls[c].requests[2].id = <<"7">>
    /\ calls[c].result.t = "string"

\* The find request of a tvdb id threw: no images request, null returned.
C18_FailedConversion ==
  \E c \in Calls :
    /\ calls[c].pc = "done"
    /\ calls[c].id = <<"t", "v", "d", "b", ":", "1">>
    /\ Len(calls[c].requests) = 1
    /\ calls[c].requests[1].api = "tmdb-find"
    /\ calls[c].answers = <<"throw">>
    /\ calls[c].result = Null

\* The requests of a call that have not been answered yet.
InFlight(call) == Len(call.requests) - Len(call.answers)

\* C19: within one getLogo or getPosterUrl call at most one request is in
\* flight at any time, and the lower-priority provider (TMDB for logos,
\* Fanart.tv for posters) is asked only after the higher-priority one has
\* been tried and gave no result.
C19_OneRequestAtATime ==
  /\ \A c \in Calls :
       LET call == calls[c]
       IN /\ InFlight(call) \in {0, 1}
          /\ InFlight(call) = 1 <=> call.pc \in {"fanart", "find", "images"}
          /\ \A i \in 1..Len(call.requests) :
               call.requests[i].api \in TmdbApis
                 => /\ Len(call.answers) >= i - 1
                    /\ call.fanartApiKey
                         => /\ call.fanartLogo # Undefined
                            /\ ~Truthy(call.fanartLogo)
  /\ \A c \in Calls :
       LET call == posterCalls[c]
       IN /\ InFlight(call) \in {0, 1}
          /\ InFlight(call) = 1 <=> call.pc = "fanart"
          /\ (call.requests # <<>> /\ call.rpdb)
               => call.rpdbPosterUrl \in {Null, ThrownValue}

\* The TMDB images request is in flight after Fanart.tv and the find request
\* were answered.
C19_Witness ==
  \E c \in Calls :
    /\ calls[c].pc = "images"
    /\ Len(calls[c].requests) = 3
    /\ calls[c].requests[1].api = "fanart"
    /\ Len(calls[c].answers) = 2
    /\ calls[c].fanartLogo = Null

\* The Fanart.tv poster request is in flight after RPDB gave null.
C19_PosterCase ==
  \E c \in Calls :
    /\ posterCalls[c].pc = "fanart"
    /\ posterCalls[c].rpdb
    /\ posterCalls[c].rpdbPosterUrl = Null
    /\ Len(posterCalls[c].requests) = 1
    /\ posterCalls[c].answers = <<>>

(***************************************************************************)
(* Properties of ArtworkProvider, over the behaviours of Spec.             *)
(***************************************************************************)
\* A getPosterUrl call on an instance is under way or has returned.
PosterCallMade(c) == posterCalls[c].pc \in {"fanart", "done"}

\* C12: constructing an ArtworkProvider does not throw, whatever the
\* configuration and even when the RPDB constructor throws; hasProviders()
\* is true exactly when RPDB was constructed (rpdbApiKey set and its
\* constructor did not throw) or Fanart.tv was (fanartApiKey set and
\* fanartEnabled); and on an instance without providers getPosterUrl returns
\* null without invoking RPDB or Fanart.tv.
C12_ProvidersAndConstruction ==
  \A c \in Calls :
    PosterCallMade(c) =>
      LET call == posterCalls[c]
          rpdbBuilt == call.config.rpdbApiKey /\ ~call.rpdbThrows
          fanartBuilt == call.config.fanartApiKey /\ call.config.fanartEnabled
      IN /\ ~call.threw
         /\ hasProviders(call) <=> (rpdbBuilt \/ fanartBuilt)
         /\ ~hasProviders(call)
              => /\ call.pc = "done"
                 /\ call.result = Null
                 /\ call.rpdbPosterUrl = Undefined
                 /\ call.fanartPosterUrl = Undefined
                 /\ call.requests = <<>>

\* The RPDB constructor threw and Fanart.tv is not enabled: the instance was
\* built without providers and its getPosterUrl returned null.
C12_Witness ==
  \E c \in Calls :
    /\ posterCalls[c].pc = "done"
    /\ posterCalls[c].config.rpdbApiKey
    /\ posterCalls[c].rpdbThrows
    /\ posterCalls[c].config.fanartApiKey
    /\ ~posterCalls[c].config.fanartEnabled
    /\ ~hasProviders(posterCalls[c])
    /\ posterCalls[c].result = Null
    /\ posterCalls[c].requests = <<>>

(***************************************************************************)
(* Properties of racing getLogo calls, over the behaviours of SpecRace.    *)
(***************************************************************************)
AllCallersFinished == \A c \in Calls : calls[c].pc = "done"

\* The call missed the cache and awaited a provider before it wrote.
Raced(c) == calls[c].requests # <<>> /\ calls[c].writes # <<>>

\* C20: concurrent getLogo callers that race to populate one key converge:
\* the value left in the cache when all have finished does not depend on the
\* order of their writes.  Two callers that both missed and awaited a
\* provider finish, and write, in either order, so the value left is the
\* same for both orders exactly when the two wrote the same value.
C20_RacingCallersConverge ==
  AllCallersFinished =>
    \A c, d \in Calls :
      (Raced(c) /\ Raced(d)) =>
        /\ calls[c].writes[1].value = calls[d].writes[1].value
        /\ logoCache[RaceKey].value = calls[c].writes[1].value

\* Callers that hold the same key and token do converge, the answers of the
\* endpoints being the same for all.
C20_SameConfigurationCase ==
  (/\ AllCallersFinished
   /\ \A c, d \in Calls :
        /\ calls[c].fanartApiKey = calls[d].fanartApiKey
        /\ calls[c].tmdbAccessToken = calls[d].tmdbAccessToken)
    => \A c, d \in Calls :
         (Raced(c) /\ Raced(d)) =>
           /\ calls[c].writes[1].value = calls[d].writes[1].value
           /\ logoCache[RaceKey].value = calls[c].writes[1].value

(***************************************************************************)
(* The frame of getLogo on the cache, over the behaviours of SpecFault.    *)
(***************************************************************************)
\* The entry that logoCache.set(key, value, ttl) leaves under the key.
EntryOf(write) == [present |-> TRUE, value |-> write.value, ttl |-> write.ttl]

\* What a getLogo call may have written, by how it went.
WritesWithinFrame(call) ==
  /\ Len(call.writes) <= 1
  /\ \A i \in 1..Len(call.writes) : call.writes[i].key = KeyOf(call)
  /\ IsCacheHit(call.cachedLogo) => call.writes = <<>>
  /\ call.caught => (call.writes = <<>> /\ call.result = Null)
  /\ call.writes # <<>> => call.parsed

\* The entry under key changes in this step only by the one write of a call
\* that missed on this key and did not end in the catch block, or by expiry.
ChangedWithinFrame(key) ==
  \/ calls' = calls /\ logoCache'[key] = Absent
  \/ \E c \in Calls :
       /\ calls'[c] # calls[c]
       /\ key = KeyOf(calls'[c])
       /\ calls'[c].parsed
       /\ ~calls'[c].caught
       /\ calls[c].writes = <<>>
       /\ Len(calls'[c].writes) = 1
       /\ logoCache'[key] = EntryOf(calls'[c].writes[1])

\* C21: the frame of getLogo on the cache.  A call that hits the cache
\* writes nothing; a call that misses writes at most once, under its own
\* (id, type, language) key, and every other key's entry stays as it was;
\* a call that ends in the catch block of getLogo (it returns null after an
\* exception) writes nothing.
C21_CacheFrame ==
  [][ /\ \A c \in Calls : WritesWithinFrame(calls'[c])
      /\ \A key \in LogoKeys :
           logoCache'[key] # logoCache[key] => ChangedWithinFrame(key) ]_vars

\* A call that missed and asked a provider has ended in the catch block:
\* its key has no entry, and the entry another call left is still there.
C21_Witness ==
  \E c \in Calls :
    /\ calls[c].pc = "done"
    /\ calls[c].caught
    /\ calls[c].parsed
    /\ calls[c].requests # <<>>
    /\ calls[c].writes = <<>>
    /\ ~logoCache[KeyOf(calls[c])].present
    /\ \E key \in LogoKeys \ {KeyOf(calls[c])} :
         logoCache[key].present /\ logoCache[key].value.t = "string"

\* A call that hit the cache has returned the cached URL and written nothing.
C21_HitCase ==
  \E c \in Calls :
    /\ calls[c].pc = "done"
    /\ IsCacheHit(calls[c].cachedLogo)
    /\ ~calls[c].caught
    /\ calls[c].result.t = "string"
    /\ calls[c].writes = <<>>

\* A call that missed has written once, under its own key, beside the entry
\* of another key.
C21_MissCase ==
  \E c \in Calls :
    /\ calls[c].pc = "done"
    /\ calls[c].parsed
    /\ Len(calls[c].writes) = 1
    /\ logoCache[KeyOf(calls[c])] = EntryOf(calls[c].writes[1])
    /\ \E key \in LogoKeys \ {KeyOf(calls[c])} : logoCache[key].present

\* A call whose logoCache.get threw has ended in the catch block without
\* reading or writing an entry.
C21_GetThrowsCase ==
  \E c \in Calls :
    /\ calls[c].pc = "done"
    /\ calls[c].caught
    /\ calls[c].fault = "get"
    /\ ~calls[c].parsed
    /\ logoCache[KeyOf(calls[c])].present

====
